---- MODULE Spec2Model ----
(***************************************************************************)
(* Model of the Heimdall service (src/heimdall.py): the SSH tunnel that    *)
(* the service owns (one QProcess), the poll timer that probes the         *)
(* forwarded Sway/i3 socket, the setup that runs after a successful probe, *)
(* and the D-Bus methods Connect, Disconnect and Reset that drive them.    *)
(* Every slot, signal handler and timer callback runs to completion on the *)
(* Qt event loop, so each one is a single action.                          *)
(***************************************************************************)
EXTENDS Naturals, Integers, Sequences, FiniteSets, TLC

\* Number of times start_tunnel may spawn the SSH process (nConn is unbounded
\* in the program).
MaxStarts == 2

\* Number of most recent probe outcomes of the current poll timer that are
\* remembered in probes (history only, the timer itself ticks for ever).
MaxProbes == 3

VARIABLES
    ssh_open,         \* self.ssh_proc.isOpen()
    ssh_state,        \* QProcess state of self.ssh_proc
    owned,            \* spawned tunnel processes (by start number) still alive
    nConn,            \* number of times start_tunnel subscribed the callbacks
                      \* and started the process; the current attempt's number
    sway_pid,         \* output of the last "pidof sway" lookup
    local_socket,     \* os.path.exists(self.local_socket)
    connect_timer,    \* self.connect_timer: "unset", "active" or "stopped"
    timer_gen,        \* the attempt whose 'started' event created connect_timer
    reconnect_timer,  \* self.reconnect_timer: "inactive" or "active"
    i3,               \* the attempt self.i3 is connected through (0: no self.i3)
    setup_calls,      \* per attempt, how many times setup() ran on its connection
    probes,           \* the last outcomes of try_connect on the current timer
    app,              \* "exec": event loop running; "exit": app.exit(2) called;
                      \* "fatal": aborted on an unhandled exception in a slot
    poll_timers,      \* number of QTimer objects alive and armed with try_connect
    prev_path,        \* self.contextual_executor.prev_path
    dispatched,       \* the path of the latest ContextualAction call that
                      \* ended without error (NoDispatch, FailedDispatch otherwise)
    last              \* the handler that ran last: its name, its input, the
                      \* exception that left it, the tunnel state it began in,
                      \* the commands it issued (cmds), and for ContextualAction
                      \* the value of dispatched it found (prev), for setup the
                      \* workspaces it found (ws)

vars == <<ssh_open, ssh_state, owned, nConn, sway_pid, local_socket,
          connect_timer, timer_gen, reconnect_timer, i3, setup_calls,
          probes, app, poll_timers, prev_path, dispatched, last>>

Attempts == 1..MaxStarts

\* Python's None; _run_remote never returns it.
None == "<None>"

\* What _run_remote(["pidof", "sway"]) can return: the stripped stdout of the
\* remote command, empty when sway is not running.
RunRemotePidof == {"", "731"}

\* The tunnel state of the design, read off the fields of the service.
TunnelState ==
    IF reconnect_timer = "active" THEN "ReconnectPending"
    ELSE IF ~ssh_open THEN "Idle"
    ELSE IF ssh_state = "NotRunning" THEN "Exited"
    ELSE IF i3 = nConn THEN "Active"
    ELSE IF ssh_state = "Starting" THEN "Starting"
    ELSE "Probing"

\* The fields start_tunnel and stop_tunnel read and write.
Tun ==
    [open |-> ssh_open, state |-> ssh_state, owned |-> owned,
     sock |-> local_socket, n |-> nConn, pid |-> sway_pid, exc |-> "none"]

Commit(t) ==
    /\ ssh_open' = t.open
    /\ ssh_state' = t.state
    /\ owned' = t.owned
    /\ local_socket' = t.sock
    /\ nConn' = t.n
    /\ sway_pid' = t.pid

\* if self.ssh_proc and self.ssh_proc.isOpen(): return
AlreadyRunningNoGuard(t) == FALSE
AlreadyRunning(t) == t.open

\* if sway_pid is None
IsNone(v) == v = None

start_tunnel(t, pid) ==
    IF AlreadyRunning(t) THEN t
    ELSE IF IsNone(pid) THEN [t EXCEPT !.exc = "Exception"]
    ELSE [t EXCEPT !.pid = pid,
                   !.sock = FALSE,
                   !.n = t.n + 1,
                   !.open = TRUE,
                   !.state = "Starting",
                   !.owned = t.owned \cup {t.n + 1}]

\* if os.path.exists(self.local_socket): os.remove(self.local_socket)
stop_tunnelKeepsSocket(t) ==
    [t EXCEPT !.open = FALSE,
              !.state = IF t.open THEN "NotRunning" ELSE t.state,
              !.owned = IF t.open THEN t.owned \ {t.n} ELSE t.owned]
stop_tunnel(t) ==
    [t EXCEPT !.open = FALSE,
              !.state = IF t.open THEN "NotRunning" ELSE t.state,
              !.owned = IF t.open THEN t.owned \ {t.n} ELSE t.owned,
              !.sock = FALSE]

\* _setup_reestablish_tunnel: stop_tunnel(), then the argument of connect() is
\* evaluated, which calls start_tunnel() at once; connect(None) then raises
\* TypeError, so singleShot and start(100) are never reached.
_setup_reestablish_tunnel(t, pid) ==
    LET s == start_tunnel(stop_tunnel(t), pid)
    IN  [s EXCEPT !.exc = IF s.exc = "none" THEN "TypeError" ELSE s.exc]

Handler(op, arg, exc) ==
    [op |-> op, arg |-> arg, exc |-> exc, from |-> TunnelState,
     cmds |-> << >>, prev |-> "", ws |-> << >>]

\* No ContextualAction call yet / the latest one raised.
NoDispatch == "<none>"
FailedDispatch == "<failed>"

\* Heimdall.__init__: the process handle and the reconnect timer are created,
\* then start_tunnel() runs once.
Init ==
    \E pid \in RunRemotePidof :
        LET t == start_tunnel(
                     [open |-> FALSE, state |-> "NotRunning", owned |-> {},
                      sock |-> FALSE, n |-> 0, pid |-> None, exc |-> "none"],
                     pid)
        IN  /\ ssh_open = t.open
            /\ ssh_state = t.state
            /\ owned = t.owned
            /\ local_socket = t.sock
            /\ nConn = t.n
            /\ sway_pid = t.pid
            /\ connect_timer = "unset"
            /\ timer_gen = 0
            /\ reconnect_timer = "inactive"
            /\ i3 = 0
            /\ setup_calls = [a \in Attempts |-> 0]
            /\ probes = << >>
            /\ app = "exec"
            /\ poll_timers = 0
            /\ prev_path = ""
            /\ dispatched = NoDispatch
            /\ last = [op |-> "__init__", arg |-> "pidof:" \o pid,
                       exc |-> t.exc, from |-> "Idle",
                       cmds |-> << >>, prev |-> "", ws |-> << >>]

\* ------------------------------------------------------------- D-Bus slots

\* DBusAdaptor.Connect
Connect ==
    /\ app = "exec"
    /\ \E pid \in RunRemotePidof :
        LET t == start_tunnel(Tun, pid)
        IN  /\ t.n <= MaxStarts
            /\ Commit(t)
            /\ last' = Handler("Connect",
                               IF AlreadyRunning(Tun) THEN "already_running"
                               ELSE "pidof:" \o pid,
                               t.exc)
    /\ UNCHANGED <<connect_timer, timer_gen, reconnect_timer, i3, setup_calls,
                   probes, app>>
    /\ UNCHANGED <<poll_timers, prev_path, dispatched>>

\* DBusAdaptor.Disconnect
Disconnect ==
    /\ app = "exec"
    /\ Commit(stop_tunnel(Tun))
    /\ last' = Handler("Disconnect", "", "none")
    /\ UNCHANGED <<connect_timer, timer_gen, reconnect_timer, i3, setup_calls,
                   probes, app>>
    /\ UNCHANGED <<poll_timers, prev_path, dispatched>>

\* DBusAdaptor.Reset: stop_tunnel() then start_tunnel()
Reset ==
    /\ app = "exec"
    /\ \E pid \in RunRemotePidof :
        LET t == start_tunnel(stop_tunnel(Tun), pid)
        IN  /\ t.n <= MaxStarts
            /\ Commit(t)
            /\ last' = Handler("Reset", "pidof:" \o pid, t.exc)
    /\ UNCHANGED <<connect_timer, timer_gen, reconnect_timer, i3, setup_calls,
                   probes, app>>
    /\ UNCHANGED <<poll_timers, prev_path, dispatched>>

\* abort(signum, frame): the SIGINT/SIGTERM handler
abort ==
    /\ app = "exec"
    /\ Commit(stop_tunnel(Tun))
    /\ app' = "exit"
    /\ last' = Handler("abort", "", "none")
    /\ UNCHANGED <<connect_timer, timer_gen, reconnect_timer, i3, setup_calls,
                   probes>>
    /\ UNCHANGED <<poll_timers, prev_path, dispatched>>

\* ------------------------------------------------- tunnel process lifecycle

\* The 'started' signal of ssh_proc. start_tunnel connected
\* _ssh_process_started once per start, so the slot runs nConn times in a row;
\* each run creates a QTimer, binds it to self.connect_timer (the timer bound
\* before loses its last reference and is destroyed) and starts it.
\* self.connect_timer = QTimer(): the timer bound before is released; an
\* armed one is destroyed with its timeout connection.
ReleaseKeepsTimer(armed, bound) == armed
ReleaseTimer(armed, bound) == IF bound = "active" THEN armed - 1 ELSE armed

\* k runs of the slot: each releases the bound timer and arms a new one.
RECURSIVE SlotRuns(_, _, _)
SlotRuns(k, armed, bound) ==
    IF k = 0 THEN armed
    ELSE SlotRuns(k - 1, ReleaseTimer(armed, bound) + 1, "active")

_ssh_process_started ==
    /\ app = "exec"
    /\ ssh_state = "Starting"
    /\ ssh_state' = "Running"
    /\ connect_timer' = "active"
    /\ poll_timers' = SlotRuns(nConn, poll_timers, connect_timer)
    /\ timer_gen' = nConn
    /\ probes' = << >>
    /\ last' = Handler("_ssh_process_started", connect_timer, "none")
    /\ UNCHANGED <<ssh_open, owned, nConn, sway_pid, local_socket,
                   reconnect_timer, i3, setup_calls, app>>
    /\ UNCHANGED <<prev_path, dispatched>>

\* The 'errorOccurred' signal: the process failed to start, or crashed (then
\* 'finished' follows in the same event). Both slots only print.
_ssh_process_error ==
    /\ app = "exec"
    /\ ssh_state \in {"Starting", "Running"}
    /\ ssh_state' = "NotRunning"
    /\ owned' = owned \ {nConn}
    /\ last' = Handler("_ssh_process_error",
                       IF ssh_state = "Starting" THEN "FailedToStart"
                       ELSE "Crashed", "none")
    /\ UNCHANGED <<ssh_open, nConn, sway_pid, local_socket, connect_timer,
                   timer_gen, reconnect_timer, i3, setup_calls, probes, app>>
    /\ UNCHANGED <<poll_timers, prev_path, dispatched>>

\* The 'finished' signal: the running process exited. The slot only prints.
_ssh_process_finished ==
    /\ app = "exec"
    /\ ssh_state = "Running"
    /\ ssh_state' = "NotRunning"
    /\ owned' = owned \ {nConn}
    /\ last' = Handler("_ssh_process_finished", "", "none")
    /\ UNCHANGED <<ssh_open, nConn, sway_pid, local_socket, connect_timer,
                   timer_gen, reconnect_timer, i3, setup_calls, probes, app>>
    /\ UNCHANGED <<poll_timers, prev_path, dispatched>>

\* The running ssh binds the forwarded socket given with -L.
SocketBound ==
    /\ app = "exec"
    /\ nConn \in owned
    /\ ~local_socket
    /\ local_socket' = TRUE
    /\ last' = Handler("ssh -L", "", "none")
    /\ UNCHANGED <<ssh_open, ssh_state, owned, nConn, sway_pid, connect_timer,
                   timer_gen, reconnect_timer, i3, setup_calls, probes, app>>
    /\ UNCHANGED <<poll_timers, prev_path, dispatched>>

\* -------------------------------------------------------------- WM commands

\* A command is what it does (op) and the words of its text (arg).
Cmd(op, arg) == [op |-> op, arg |-> arg]

\* The parts of config.json and of the environment that the commands use.
Config ==
    [terminal |-> "xterm",
     terminal_exec |-> "xterm -e",
     terminal_exec_keep |-> "xterm -hold -e",
     ssh |-> "ssh",
     backwards_port |-> "2222",
     remote_run |-> << <<"xset", "s", "off">>, <<"pkill", "swaybg">> >>,
     workspaces |-> << [name |-> "main",
                        commands |-> << Cmd("exec", <<"$TERM">>) >>],
                       [name |-> "logs",
                        commands |-> << Cmd("exec", <<"$TERM_EXEC", "dmesg">>),
                                        Cmd("exec", <<"$TERM_EXEC_KEEP", "top">>) >>] >>]

User == "pi"

\* The replacements of i3_command, on one word of the command.
Substitute(w) ==
    IF w = "$TERM_EXEC_KEEP" THEN Config.terminal_exec_keep
    ELSE IF w = "$TERM_EXEC" THEN Config.terminal_exec
    ELSE IF w = "$TERM" THEN Config.terminal
    ELSE IF w = "$SSH_TO_HOST"
         THEN Config.ssh \o " -p " \o Config.backwards_port \o " -t "
              \o User \o "@localhost "
    ELSE w

\* Heimdall.i3_command: the command that reaches self.i3.command
i3_command(c) == Cmd(c.op, [k \in DOMAIN c.arg |-> Substitute(c.arg[k])])

\* The paths a ContextualAction call may carry.
Paths == {"", "/a", "/b"}

\* ContextualExecutor.execute: the commands it hands to i3_command, in order.
executeKillLast(pp, path) ==
    IF path # pp
    THEN << i3_command(Cmd("workspace", <<"99">>)),
            i3_command(Cmd("rename", <<"99", "99: contextual">>)),
            i3_command(Cmd("kill", <<"99", "99: contextual">>)),
            i3_command(Cmd("exec", <<"$TERM_EXEC_KEEP", "$SSH_TO_HOST",
                                     "ls", "-l", "--color", path>>)) >>
    ELSE << >>
execute(pp, path) ==
    IF path # pp
    THEN << i3_command(Cmd("kill", <<"99", "99: contextual">>)),
            i3_command(Cmd("workspace", <<"99">>)),
            i3_command(Cmd("rename", <<"99", "99: contextual">>)),
            i3_command(Cmd("exec", <<"$TERM_EXEC_KEEP", "$SSH_TO_HOST",
                                     "ls", "-l", "--color", path>>)) >>
    ELSE << >>

\* "{}".format(wsnum)
NumStr(n) ==
    CASE n = 0 -> "0" [] n = 1 -> "1" [] n = 2 -> "2" [] n = 3 -> "3"
      [] n = 4 -> "4" [] n = 5 -> "5" [] n = 6 -> "6" [] n = 7 -> "7"
      [] n = 8 -> "8" [] n = 9 -> "9"

\* The names self.i3.get_workspaces() can return.
ExistingWorkspaces == { << >>, <<"1", "99: contextual">> }

\* for workspace in self.i3.get_workspaces(): self.i3.command(... kill)
KillCommands(ws) == [k \in 1..Len(ws) |-> Cmd("kill", <<ws[k]>>)]

\* for cmd in self.config['startup']['remote-run']: self._run_remote(cmd)
RemoteRunCommands ==
    [k \in 1..Len(Config.remote_run) |-> Cmd("remote", Config.remote_run[k])]

\* The workspace loop of setup for the first n workspaces of the config:
\* wsnum is incremented, then the workspace is selected and renamed, then its
\* commands go through i3_command.
RECURSIVE WorkspaceCommands(_)
WorkspaceCommands(n) ==
    IF n = 0 THEN << >>
    ELSE LET wsconf == Config.workspaces[n]
         IN  WorkspaceCommands(n - 1)
             \o << Cmd("workspace", <<NumStr(n)>>),
                   Cmd("rename", <<NumStr(n), wsconf.name>>) >>
             \o [k \in 1..Len(wsconf.commands) |->
                     i3_command(wsconf.commands[k])]

\* The commands of a setup() that runs to its end, in the order issued.
SetupCommandsRemoteFirst(ws) ==
    RemoteRunCommands \o KillCommands(ws)
    \o WorkspaceCommands(Len(Config.workspaces))
SetupCommands(ws) ==
    KillCommands(ws) \o RemoteRunCommands
    \o WorkspaceCommands(Len(Config.workspaces))

\* How many commands a setup() has issued when one of its i3 calls finds the
\* connection gone: none (get_version, get_workspaces), or those before an
\* i3 command.
FailPoints(full) ==
    {0} \cup {k \in 0..(Len(full) - 1) : full[k + 1].op # "remote"}

\* --------------------------------------------------------------- poll timer

\* What Connection(socket_path=self.local_socket) can do: the path is absent,
\* nothing listens behind it, the handshake succeeds, or another error. The
\* handshake can succeed only through a live tunnel whose remote socket path
\* was built from a pid that pidof printed.
ProbeOutcomes ==
    IF ~local_socket THEN {"notfound"}
    ELSE IF nConn \in owned /\ sway_pid # "" THEN {"refused", "success", "other"}
    ELSE {"refused", "other"}

\* except ConnectionRefusedError / except FileNotFoundError in try_connect
ToleratedRefusedOnly(outcome) == outcome = "refused"
Tolerated(outcome) == outcome \in {"refused", "notfound"}

\* An i3 call inside setup() succeeds, or finds the connection gone
\* (ConnectionRefusedError, FileNotFoundError).
SetupOutcomes == {"ok", "gone"}

\* An exception that leaves a slot is printed and the event loop goes on, or
\* the binding aborts the program, depending on the PyQt5 in use.
Unhandled(exc) == IF exc = "none" THEN {"exec"} ELSE {"exec", "fatal"}

Remember(outcome) ==
    LET h == Append(probes, outcome)
    IN  IF Len(h) > MaxProbes THEN Tail(h) ELSE h

\* setup(), called with a fresh self.i3; returns the tunnel fields it leaves.
setup(t, result, pid) ==
    IF result = "gone" THEN _setup_reestablish_tunnel(t, pid) ELSE t

\* The timeout of self.connect_timer: try_connect, and setup on success.
try_connect ==
    /\ app = "exec"
    /\ connect_timer = "active"
    /\ \E outcome \in ProbeOutcomes :
        /\ probes' = Remember(outcome)
        /\ IF Tolerated(outcome)
           THEN /\ last' = Handler("try_connect", outcome, "none")
                /\ UNCHANGED <<ssh_open, ssh_state, owned, nConn, sway_pid,
                               local_socket, connect_timer, timer_gen,
                               reconnect_timer, i3, setup_calls, app>>
                /\ UNCHANGED <<poll_timers, prev_path, dispatched>>
           ELSE IF outcome # "success"
           THEN /\ last' = Handler("try_connect", outcome, "OSError")
                /\ app' \in Unhandled("OSError")
                /\ UNCHANGED <<ssh_open, ssh_state, owned, nConn, sway_pid,
                               local_socket, connect_timer, timer_gen,
                               reconnect_timer, i3, setup_calls>>
                /\ UNCHANGED <<poll_timers, prev_path, dispatched>>
           ELSE \E result \in SetupOutcomes, pid \in RunRemotePidof,
                   ws \in ExistingWorkspaces :
                LET t == setup(Tun, result, pid)
                    full == SetupCommands(ws)
                IN  /\ t.n <= MaxStarts
                    /\ i3' = nConn
                    /\ connect_timer' = "stopped"
                    /\ poll_timers' = poll_timers - 1
                    /\ setup_calls' =
                           [setup_calls EXCEPT ![nConn] = @ + 1]
                    /\ Commit(t)
                    /\ app' \in Unhandled(t.exc)
                    /\ \E k \in IF result = "gone" THEN FailPoints(full)
                                 ELSE {Len(full)} :
                           last' = [Handler("try_connect", "setup_" \o result,
                                            t.exc)
                                        EXCEPT !.cmds = SubSeq(full, 1, k),
                                               !.ws = ws]
                    /\ UNCHANGED <<timer_gen, reconnect_timer, prev_path,
                                   dispatched>>

\* ----------------------------------------------------- contextual action

\* self.i3.command on the connection made by try_connect: there is no self.i3
\* before the first successful probe, and a connection made through a tunnel
\* process that is gone is broken.
LinkError ==
    IF i3 = 0 THEN "AttributeError"
    ELSE IF i3 \notin owned THEN "OSError"
    ELSE "none"

\* DBusAdaptor.ContextualAction -> Heimdall.contextual_action -> execute.
\* "prev_path = path" in execute binds a local name: self.prev_path keeps the
\* value __init__ gave it.
ContextualAction ==
    /\ app = "exec"
    /\ \E path \in Paths :
        LET cmds == execute(prev_path, path)
            exc  == IF cmds = << >> THEN "none" ELSE LinkError
            sent == IF exc = "none" THEN cmds ELSE << >>
        IN  /\ last' = [Handler("ContextualAction", path, exc)
                            EXCEPT !.cmds = sent, !.prev = dispatched]
            /\ dispatched' = IF exc = "none" THEN path ELSE FailedDispatch
            /\ app' \in Unhandled(exc)
    /\ UNCHANGED <<ssh_open, ssh_state, owned, nConn, sway_pid, local_socket,
                   connect_timer, timer_gen, reconnect_timer, i3, setup_calls,
                   probes, poll_timers, prev_path>>

Next ==
    \/ ContextualAction
    \/ Connect
    \/ Disconnect
    \/ Reset
    \/ abort
    \/ _ssh_process_started
    \/ _ssh_process_error
    \/ _ssh_process_finished
    \/ SocketBound
    \/ try_connect

Spec == Init /\ [][Next]_vars

\* The event loop delivers a due timer tick and a pending 'started' signal;
\* nothing obliges the callers of the D-Bus methods, the remote side or the
\* tunnel process to act.
FairSpec == Spec /\ WF_vars(try_connect) /\ WF_vars(_ssh_process_started)

\* ------------------------------------------------------------------ claims

ProcessDied == last.op \in {"_ssh_process_error", "_ssh_process_finished"}

ExternalCall == last.op \in {"Connect", "Disconnect", "Reset", "abort"}

\* C1: the service owns at most one SSH tunnel process at any time: no start
\* spawns a process while one spawned earlier is still alive.
C1_AtMostOneTunnelProcess == Cardinality(owned) <= 1

\* C1 witness: Connect called on a restarted tunnel whose process is alive.
C1_Witness ==
    /\ last.op = "Connect"
    /\ last.arg = "already_running"
    /\ nConn >= 2
    /\ owned = {nConn}

\* C2: setup runs at most once on the connection of one tunnel attempt.
C2_SetupOncePerConnection == \A a \in Attempts : setup_calls[a] <= 1

\* C3: when the tunnel process exits or fails while the tunnel is Starting or
\* Probing, the service is left in ReconnectPending with the process released
\* and the local socket removed.
C3_ExitLeadsToReconnectPending ==
    (ProcessDied /\ last.from \in {"Starting", "Probing"})
        => /\ TunnelState = "ReconnectPending"
           /\ ~ssh_open
           /\ owned = {}
           /\ ~local_socket

\* C4: after the tunnel process died, the tunnel is eventually Starting again
\* unless a D-Bus call or the shutdown signal came in between.
C4_DeathLeadsToStarting ==
    ProcessDied ~> (TunnelState = "Starting" \/ ExternalCall)

\* C5: the step that enters the reconnect path (setup found the connection
\* gone) starts no tunnel: it leaves the process closed and the number of
\* starts as it was.
C5_ReconnectDefersStart ==
    [][(last'.op = "try_connect" /\ last'.arg = "setup_gone")
           => (nConn' = nConn /\ ~ssh_open' /\ owned' = {})]_vars

\* C6: after Disconnect or the shutdown signal handler the process is killed,
\* the local socket removed, no timer armed and the tunnel Idle.
C6_StopLeavesIdle ==
    last.op \in {"Disconnect", "abort"}
        => /\ owned = {}
           /\ ~ssh_open
           /\ ~local_socket
           /\ connect_timer # "active"
           /\ reconnect_timer # "active"
           /\ TunnelState = "Idle"

\* C7: once the tunnel has left Starting/Probing by a successful probe
\* (Active) or by a stop (Idle), the poll timer is not armed and no probe of
\* the local socket is made.
C7_NoPollOutsideStartingProbing ==
    /\ connect_timer = "active" => TunnelState \notin {"Idle", "Active"}
    /\ last.op = "try_connect" => last.from \notin {"Idle", "Active"}

\* C8: a poll tick whose probe is refused or finds no socket changes nothing
\* and leaves the timer armed, without error and without entering the
\* reconnect path; a tick whose probe succeeds (and whose setup goes through)
\* stops the timer and leaves the tunnel Active.
C8_TransientProbesRetried ==
    [][last'.op = "try_connect" =>
        /\ last'.arg \in {"refused", "notfound"} =>
              /\ connect_timer' = "active"
              /\ last'.exc = "none"
              /\ TunnelState' = TunnelState
              /\ TunnelState' # "ReconnectPending"
              /\ UNCHANGED <<ssh_open, ssh_state, owned, nConn, local_socket,
                             reconnect_timer, i3, setup_calls, app>>
        /\ last'.arg = "setup_ok" =>
              /\ TunnelState' = "Active"
              /\ connect_timer' = "stopped"
              /\ last'.exc = "none"
              /\ UNCHANGED <<ssh_open, ssh_state, owned, nConn,
                             reconnect_timer, app>>]_vars

\* C8 witness: the current attempt's timer saw no socket, then a refusal, then
\* a success, and the tunnel is Active.
C8_Witness ==
    /\ probes = <<"notfound", "refused", "success">>
    /\ last.op = "try_connect"
    /\ last.from = "Probing"
    /\ timer_gen = nConn
    /\ TunnelState = "Active"

\* C9: a probe that fails with another error than refused/not found leaves the
\* service in ReconnectPending, cleaned up.
C9_HardProbeFailureEscalates ==
    (last.op = "try_connect" /\ last.arg = "other")
        => /\ TunnelState = "ReconnectPending"
           /\ ~ssh_open
           /\ owned = {}
           /\ ~local_socket

\* C10: a Connect or Reset whose pidof lookup yields no pid raises to the
\* caller, spawns no process, arms no reconnect and leaves the tunnel Idle.
C10_StartFailsFastWithoutWM ==
    (last.op \in {"Connect", "Reset"} /\ last.arg = "pidof:")
        => /\ last.exc # "none"
           /\ owned = {}
           /\ reconnect_timer = "inactive"
           /\ TunnelState = "Idle"

\* C11: Connect while the tunnel is Active changes nothing: no pidof lookup,
\* no process spawned, socket and timers as they were.
C11_ConnectWhileActiveIsNoOp ==
    [][(last'.op = "Connect" /\ TunnelState = "Active")
           => /\ last'.arg = "already_running"
              /\ last'.exc = "none"
              /\ TunnelState' = "Active"
              /\ UNCHANGED <<ssh_open, ssh_state, owned, nConn, sway_pid,
                             local_socket, connect_timer, timer_gen,
                             reconnect_timer, i3, setup_calls, probes,
                             app, poll_timers, prev_path,
                             dispatched>>]_vars

\* C11 witness: Connect has run on an Active tunnel.
C11_Witness ==
    /\ last.op = "Connect"
    /\ last.from = "Active"
    /\ TunnelState = "Active"
    /\ connect_timer = "stopped"

StartEntered ==
    \/ last.op \in {"__init__", "Connect", "Reset"} /\ last.arg # "already_running"
    \/ last.op = "try_connect" /\ last.arg = "setup_gone"

\* C12: the local socket path does not exist while the tunnel is Idle, right
\* after a start (before the new process has done anything) and right after
\* a stop.
C12_SocketHygiene ==
    /\ TunnelState = "Idle" => ~local_socket
    /\ StartEntered => ~local_socket
    /\ last.op \in {"Disconnect", "abort"} => ~local_socket

\* C12 witness: Reset of an Active tunnel (whose socket existed) has entered
\* Starting with the socket path absent.
C12_Witness ==
    /\ last.op = "Reset"
    /\ last.from = "Active"
    /\ TunnelState = "Starting"
    /\ ~local_socket

\* C13: Active is entered only from Probing, by a successful probe of the poll
\* timer that the current attempt armed (and never from ReconnectPending).
C13_ActiveOnlyFromProbing ==
    [][(TunnelState # "Active" /\ TunnelState' = "Active")
           => /\ TunnelState = "Probing"
              /\ last'.op = "try_connect"
              /\ timer_gen = nConn]_vars

Recreates(c) == c.op \in {"kill", "workspace", "rename"}

\* C14: a ContextualAction call whose path equals the path of the call before
\* it does not recreate the scratch workspace.
C14_RecreateOnlyOnNewPath ==
    (last.op = "ContextualAction" /\ last.exc = "none" /\ last.prev = last.arg)
        => \A k \in DOMAIN last.cmds : ~Recreates(last.cmds[k])

\* C16: in a ContextualAction call that follows a call with another path, the
\* kill of the scratch workspace comes before the switch to it and the rename
\* of it; with a non-empty path the call issues exactly these three, in this
\* order, before anything else.
C16_KillBeforeCreate ==
    (last.op = "ContextualAction" /\ last.prev \in Paths
                                  /\ last.prev # last.arg)
        => /\ \A k \in DOMAIN last.cmds :
                  last.cmds[k].op \in {"workspace", "rename"}
                      => \E j \in 1..(k - 1) :
                             /\ last.cmds[j].op = "kill"
                             /\ last.cmds[j].arg = <<"99", "99: contextual">>
           /\ (last.arg # "" /\ last.exc = "none")
                  => /\ Len(last.cmds) >= 3
                     /\ last.cmds[1] = Cmd("kill", <<"99", "99: contextual">>)
                     /\ last.cmds[2] = Cmd("workspace", <<"99">>)
                     /\ last.cmds[3] = Cmd("rename", <<"99", "99: contextual">>)

\* C16 witness: a call with /b right after a call with /a, both accepted.
C16_Witness ==
    /\ last.op = "ContextualAction"
    /\ last.prev = "/a"
    /\ last.arg = "/b"
    /\ last.exc = "none"
    /\ Len(last.cmds) = 4

\* C19: every ContextualAction call that ends without error has issued the
\* terminal launch.
C19_AlwaysLaunches ==
    (last.op = "ContextualAction" /\ last.exc = "none")
        => \E k \in DOMAIN last.cmds : last.cmds[k].op = "exec"

\* The commands that follow the kills with the configuration of Config.
ExpectedAfterKills ==
    << Cmd("remote", <<"xset", "s", "off">>),
       Cmd("remote", <<"pkill", "swaybg">>),
       Cmd("workspace", <<"1">>),
       Cmd("rename", <<"1", "main">>),
       Cmd("exec", <<"xterm">>),
       Cmd("workspace", <<"2">>),
       Cmd("rename", <<"2", "logs">>),
       Cmd("exec", <<"xterm -e", "dmesg">>),
       Cmd("exec", <<"xterm -hold -e", "top">>) >>

\* C15: a setup that ran to its end has issued one kill per workspace it
\* found, then the bootstrap commands in declared order, then per configured
\* workspace, numbered from 1: switch, rename, its commands in order.
C15_SetupCommandOrder ==
    (last.op = "try_connect" /\ last.arg = "setup_ok")
        => /\ Len(last.cmds) = Len(last.ws) + Len(ExpectedAfterKills)
           /\ \A k \in 1..Len(last.ws) :
                  last.cmds[k] = Cmd("kill", <<last.ws[k]>>)
           /\ \A k \in 1..Len(ExpectedAfterKills) :
                  last.cmds[Len(last.ws) + k] = ExpectedAfterKills[k]

\* C15 witness: setup ran to its end on a WM that had two workspaces.
C15_Witness ==
    /\ last.op = "try_connect"
    /\ last.arg = "setup_ok"
    /\ last.ws = <<"1", "99: contextual">>
    /\ Len(last.cmds) = 11
    /\ TunnelState = "Active"

\* C17: a setup whose i3 call found the connection gone has stopped issuing
\* commands, raised nothing to its caller and left the service in
\* ReconnectPending with the restart timer armed.
C17_SetupGoneHandsOver ==
    (last.op = "try_connect" /\ last.arg = "setup_gone")
        => /\ Len(last.cmds) < Len(last.ws) + Len(ExpectedAfterKills)
           /\ last.exc = "none"
           /\ reconnect_timer = "active"
           /\ TunnelState = "ReconnectPending"

\* C18: a tick of a poll timer that an earlier attempt armed leaves the tunnel
\* state and the timer as they are and runs no setup.
C18_StaleTickIsNoOp ==
    [][(last'.op = "try_connect" /\ timer_gen # nConn)
           => /\ TunnelState' = TunnelState
              /\ connect_timer' = connect_timer
              /\ i3' = i3
              /\ setup_calls' = setup_calls]_vars

\* C20: every 'started' event leaves exactly one poll timer armed, and at most
\* one poll timer is armed in every state.
C20_OnePollTimerArmed ==
    /\ poll_timers <= 1
    /\ last.op = "_ssh_process_started" => poll_timers = 1

\* C20 witness: the 'started' event of a later start arrived while the timer of
\* the start before was still armed, and one timer is armed.
C20_Witness ==
    /\ last.op = "_ssh_process_started"
    /\ last.arg = "active"
    /\ nConn >= 2
    /\ poll_timers = 1
====
